---- MODULE Spec2Model ----
(***************************************************************************)
(* A model of smalljson: the Value tagged union, the escape codec          *)
(* (escapeJson / unescapeJson), the serializer (to_string) and the         *)
(* recursive-descent Parser of src/smalljson/smalljson.cc.                 *)
(*                                                                         *)
(* A std::string is a sequence of characters.  A character is a one-letter *)
(* TLA+ string; the characters that have no printable form are named.      *)
(***************************************************************************)
EXTENDS Integers, Sequences, FiniteSets

\* ---------------------------------------------------------------- characters

NUL == "NUL"
BS == "BS"
TAB == "\t"
NL == "\n"
FF == "\f"
CR == "\r"
QUOTE == "\""
BSLASH == "\\"
SP == " "

\* std::isdigit
Digits == {"0", "1", "2", "3", "4", "5", "6", "7", "8", "9"}

isdigit(c) == c \in Digits

\* The unsigned value of a character: std::map<std::string, Value> orders its
\* keys with std::less<std::string>, which compares characters by this value.
CharCode(c) ==
  CASE c = NUL -> 0 [] c = BS -> 8 [] c = TAB -> 9 [] c = NL -> 10
    [] c = FF -> 12 [] c = CR -> 13 [] c = SP -> 32 [] c = QUOTE -> 34
    [] c = "+" -> 43 [] c = "," -> 44 [] c = "-" -> 45 [] c = "." -> 46
    [] c = "/" -> 47 [] c = "0" -> 48 [] c = "1" -> 49 [] c = "2" -> 50
    [] c = "3" -> 51 [] c = "4" -> 52 [] c = "5" -> 53 [] c = "6" -> 54
    [] c = "7" -> 55 [] c = "8" -> 56 [] c = "9" -> 57 [] c = ":" -> 58
    [] c = "E" -> 69 [] c = "[" -> 91 [] c = BSLASH -> 92 [] c = "]" -> 93
    [] c = "a" -> 97 [] c = "b" -> 98 [] c = "e" -> 101 [] c = "f" -> 102
    [] c = "l" -> 108 [] c = "n" -> 110 [] c = "r" -> 114 [] c = "s" -> 115
    [] c = "t" -> 116 [] c = "u" -> 117 [] c = "x" -> 120 [] c = "{" -> 123
    [] c = "}" -> 125

\* ------------------------------------------------------------ string helpers

\* std::string::replace(pos, count, with): count is clipped to the end.
StrReplace(str, pos, count, with) ==
  LET last == IF pos + count - 1 > Len(str) THEN Len(str) ELSE pos + count - 1
  IN SubSeq(str, 1, pos - 1) \o with \o SubSeq(str, last + 1, Len(str))

\* std::string::operator[](i) with i == size() yields the terminator '\0';
\* positions are 1-based here.
StrAt(str, pos) == IF pos <= Len(str) THEN str[pos] ELSE NUL

\* std::string::pop_back on a non-empty string.
PopBack(str) == SubSeq(str, 1, Len(str) - 1)

\* std::string operator<
RECURSIVE StrLess(_, _)
StrLess(a, b) ==
  IF b = <<>> THEN FALSE
  ELSE IF a = <<>> THEN TRUE
  ELSE IF CharCode(Head(a)) # CharCode(Head(b))
       THEN CharCode(Head(a)) < CharCode(Head(b))
  ELSE StrLess(Tail(a), Tail(b))

\* ---------------------------------------------------------------- bounds

\* longest string handed to the escape codec
MaxEscLen == 4

\* parses (and to_strings) in one run
MaxRounds == 2

\* longest document of the root family
MaxRootLen == 4

\* longest text between the brackets in the number family
MaxNumLen == 5

\* longest text after the opening quote in the string family
MaxStrBody == 4

\* most members of an object in the object family
MaxMembers == 3

\* most elements of a container a caller builds
MaxItems == 2

\* All sequences over a set of length at most n.
SeqsUpTo(S, n) == UNION {[1..k -> S] : k \in 0..n}

\* All strings over alphabet of length at most n.
StringsUpTo(alphabet, n) == SeqsUpTo(alphabet, n)

\* ------------------------------------------------------------- escape codec

\* escapeJson's table: R"(\n)", R"(\t)", R"(\\)", R"(\b)", R"(\r)", R"(\")", R"(\f)"
escapeReplaceStr ==
  << <<BSLASH, "n">>, <<BSLASH, "t">>, <<BSLASH, BSLASH>>, <<BSLASH, "b">>,
     <<BSLASH, "r">>, <<BSLASH, QUOTE>>, <<BSLASH, "f">> >>

\* A variant of escapeSwitch whose backslash case is missing.
escapeSwitchNoBackslash(c) ==
  CASE c = NL -> [replaceIdx |-> 0, replace |-> TRUE]
    [] c = TAB -> [replaceIdx |-> 1, replace |-> TRUE]
    [] c = BS -> [replaceIdx |-> 3, replace |-> TRUE]
    [] c = CR -> [replaceIdx |-> 4, replace |-> TRUE]
    [] c = QUOTE -> [replaceIdx |-> 5, replace |-> TRUE]
    [] c = FF -> [replaceIdx |-> 6, replace |-> FALSE]
    [] OTHER -> [replaceIdx |-> 0, replace |-> FALSE]

\* The switch of escapeJson: the index it selects and whether control reaches
\* the replace after the switch.  Six cases end in break; case '\f' has no
\* break and falls through to default, which is `continue`.
escapeSwitch(c) ==
  CASE c = NL -> [replaceIdx |-> 0, replace |-> TRUE]
    [] c = TAB -> [replaceIdx |-> 1, replace |-> TRUE]
    [] c = BSLASH -> [replaceIdx |-> 2, replace |-> TRUE]
    [] c = BS -> [replaceIdx |-> 3, replace |-> TRUE]
    [] c = CR -> [replaceIdx |-> 4, replace |-> TRUE]
    [] c = QUOTE -> [replaceIdx |-> 5, replace |-> TRUE]
    [] c = FF -> [replaceIdx |-> 6, replace |-> FALSE]
    [] OTHER -> [replaceIdx |-> 0, replace |-> FALSE]

\* The for loop of escapeJson over the working copy; idx is 1-based.
RECURSIVE escapeLoop(_, _)
escapeLoop(escapeStr, idx) ==
  IF idx > Len(escapeStr) THEN escapeStr
  ELSE LET sw == escapeSwitch(escapeStr[idx])
       IN IF sw.replace
          THEN escapeLoop(StrReplace(escapeStr, idx, 1, escapeReplaceStr[sw.replaceIdx + 1]),
                          idx + 2)
          ELSE escapeLoop(escapeStr, idx + 1)

escapeJson(str) == escapeLoop(str, 1)

\* unescapeJson's table: "\n", "\t", "\\", "\b", "\r", "\"", "\f"
unescapeReplaceStr == << <<NL>>, <<TAB>>, <<BSLASH>>, <<BS>>, <<CR>>, <<QUOTE>>, <<FF>> >>

\* The switch of unescapeJson on the character after a backslash; replaceIdx
\* starts at 0 and default leaves it there.
unescapeSwitch(c) ==
  CASE c = "n" -> 0
    [] c = "t" -> 1
    [] c = BSLASH -> 2
    [] c = "b" -> 3
    [] c = "r" -> 4
    [] c = QUOTE -> 5
    [] c = "f" -> 6
    [] OTHER -> 0

\* The for loop of unescapeJson over the working copy; idx is 1-based.
RECURSIVE unescapeLoop(_, _)
unescapeLoop(unescapeStr, idx) ==
  IF idx > Len(unescapeStr) THEN unescapeStr
  ELSE IF unescapeStr[idx] # BSLASH THEN unescapeLoop(unescapeStr, idx + 1)
  ELSE unescapeLoop(
         StrReplace(unescapeStr, idx, 2,
                    unescapeReplaceStr[unescapeSwitch(StrAt(unescapeStr, idx + 1)) + 1]),
         idx + 1)

unescapeJson(str) == unescapeLoop(str, 1)

\* -------------------------------------------------------------------- Value

\* A Value is its two members: type_ (the tag) and value_data_, a
\* std::variant<std::string, array_ptr, object_ptr>.  Field alt names the
\* active alternative; str is the std::string alternative; for a unique_ptr
\* alternative, null tells whether it is empty and elems is the pointee's
\* container: an Array's vector of Values, or an Object's map as the sequence
\* of its entries [key, value] in key order.
MkValue(type, alt, str, null, elems) ==
  [type |-> type, alt |-> alt, str |-> str, null |-> null, elems |-> elems]

\* Value(): type_ Null, value_data_ default-constructed (an empty string)
ValueDefault == MkValue("Null", "string", <<>>, FALSE, <<>>)

\* Value(ValueType type, Args &&...args) with one std::string argument
ValueTyped(type, str) == MkValue(type, "string", str, FALSE, <<>>)

\* Value(const char *str) / Value(const std::string &str)
ValueOfString(str) == MkValue("String", "string", str, FALSE, <<>>)

\* Value(size_t num): the Number's text is std::to_string(num), given here
ValueOfSize(decimal) == MkValue("Number", "string", decimal, FALSE, <<>>)

\* Value(bool boolean)
ValueOfBool(boolean) ==
  MkValue("Boolean", "string",
          IF boolean THEN <<"t", "r", "u", "e">> ELSE <<"f", "a", "l", "s", "e">>,
          FALSE, <<>>)

\* Value(Array &&arr) / Value(const Array &arr): make_unique<Array>(arr)
ValueOfArray(array_data) == MkValue("Array", "array_ptr", <<>>, FALSE, array_data)

\* Value(Object &&obj) / Value(const Object &obj): make_unique<Object>(obj)
ValueOfObject(object_data) == MkValue("Object", "object_ptr", <<>>, FALSE, object_data)

\* std::map::find(key) != end()
MapHas(object_data, key) == \E i \in 1..Len(object_data) : object_data[i].key = key

\* std::map::at(key) of a key the map holds
MapAt(object_data, key) ==
  object_data[CHOOSE i \in 1..Len(object_data) : object_data[i].key = key].value

\* std::map::emplace(key, value): nothing happens when the key is there;
\* otherwise the entry goes to its place in key order.
MapEmplace(object_data, key, value) ==
  IF MapHas(object_data, key) THEN object_data
  ELSE LET n == Cardinality({i \in 1..Len(object_data) : StrLess(object_data[i].key, key)})
       IN SubSeq(object_data, 1, n) \o <<[key |-> key, value |-> value]>>
            \o SubSeq(object_data, n + 1, Len(object_data))

\* --------------------------------------------------------------- serializer

\* case ValueType::String of Value::to_string: the stored text between quotes
ValueStringText(str) == <<QUOTE>> \o str \o <<QUOTE>>

\* The end of Object::to_string and Array::to_string: str.pop_back(); str += close
CloseBracket(str, close) == PopBack(str) \o <<close>>

RECURSIVE Value_to_string(_), ArrayItems(_, _), ObjectItems(_, _)

\* Value::to_string
Value_to_string(v) ==
  CASE v.type = "Null" -> <<"n", "u", "l", "l">>
    [] v.type \in {"Boolean", "Number"} -> v.str
    [] v.type = "String" -> ValueStringText(v.str)
    [] v.type = "Object" -> CloseBracket(ObjectItems(v.elems, <<"{">>), "}")
    [] v.type = "Array" -> CloseBracket(ArrayItems(v.elems, <<"[">>), "]")

\* the for loop of Array::to_string
ArrayItems(array_data, str) ==
  IF array_data = <<>> THEN str
  ELSE ArrayItems(Tail(array_data), str \o Value_to_string(Head(array_data)) \o <<",">>)

\* the for loop of Object::to_string
ObjectItems(object_data, str) ==
  IF object_data = <<>> THEN str
  ELSE ObjectItems(Tail(object_data),
                   str \o <<QUOTE>> \o escapeJson(Head(object_data).key) \o <<QUOTE, ":">>
                       \o Value_to_string(Head(object_data).value) \o <<",">>)

\* ------------------------------------------------------------------- Parser

\* The parser's state is the cursor cur_ (1-based; Len(s) + 1 is end_).  Each
\* parse function returns the cursor it leaves, the ParseError it threw ("OK"
\* when none), the Value it returned (raw: the string parseRawString
\* returned) and atEnd: whether some *cur_ was evaluated with cur_ == end_.

\* *cur_: std::string keeps a terminator after its last character, which is
\* what *end() reads.
Deref(s, cur) == IF cur <= Len(s) THEN s[cur] ELSE NUL

Ok(cur, val, atEnd) == [cur |-> cur, err |-> "OK", val |-> val, atEnd |-> atEnd]

Throw(cur, err, atEnd) == [cur |-> cur, err |-> err, val |-> ValueDefault, atEnd |-> atEnd]

WhiteSpace == {SP, NL, CR, TAB}

\* Parser::skipWhiteSpace: the cursor it leaves
RECURSIVE skipWhiteSpace(_, _)
skipWhiteSpace(s, cur) ==
  IF cur # Len(s) + 1 /\ s[cur] \in WhiteSpace THEN skipWhiteSpace(s, cur + 1) ELSE cur

\* Parser::skipDigit: the cursor it leaves
RECURSIVE skipDigit(_, _)
skipDigit(s, cur) ==
  IF cur # Len(s) + 1 /\ isdigit(s[cur]) THEN skipDigit(s, cur + 1) ELSE cur

\* The characters parseRawString accepts after a backslash.
EscapeFollowers == {QUOTE, BSLASH, "/", "t", "r", "n", "u", "b", "f"}

\* A variant of rawStringLoop that reports a lone final backslash as JSON_LENGTH.
RECURSIVE rawStringLoopLengthOnly(_, _)
rawStringLoopLengthOnly(s, cur) ==
  IF cur = Len(s) + 1 THEN [cur |-> cur, err |-> "OK"]
  ELSE IF s[cur] = BSLASH
       THEN IF cur + 1 = Len(s) + 1 THEN [cur |-> cur + 1, err |-> "OK"]
            ELSE IF s[cur + 1] \in EscapeFollowers THEN rawStringLoopLengthOnly(s, cur + 2)
            ELSE [cur |-> cur + 1, err |-> "BAD_ESCAPE"]
  ELSE IF s[cur] = QUOTE THEN [cur |-> cur + 1, err |-> "OK"]
  ELSE rawStringLoopLengthOnly(s, cur + 1)

\* The while loop of parseRawString: the cursor it leaves and what it threw.
RECURSIVE rawStringLoop(_, _)
rawStringLoop(s, cur) ==
  IF cur = Len(s) + 1 THEN [cur |-> cur, err |-> "OK"]
  ELSE IF s[cur] = BSLASH
       THEN IF cur + 1 = Len(s) + 1 THEN [cur |-> cur + 1, err |-> "BAD_ESCAPE"]
            ELSE IF s[cur + 1] \in EscapeFollowers THEN rawStringLoop(s, cur + 2)
            ELSE [cur |-> cur + 1, err |-> "BAD_ESCAPE"]
  ELSE IF s[cur] = QUOTE THEN [cur |-> cur + 1, err |-> "OK"]
  ELSE rawStringLoop(s, cur + 1)

\* Parser::parseRawString; val.str is the raw string it returns.
parseRawString(s, cur, atEnd) ==
  LET e0 == atEnd \/ cur = Len(s) + 1
  IN IF Deref(s, cur) # QUOTE THEN Throw(cur, "BAD_KEY", e0)
     ELSE LET old_cur == cur + 1
              l == rawStringLoop(s, old_cur)
          IN IF l.err # "OK" THEN Throw(l.cur, l.err, e0)
             ELSE IF l.cur = Len(s) + 1 THEN Throw(l.cur, "JSON_LENGTH", e0)
             ELSE Ok(l.cur, ValueOfString(SubSeq(s, old_cur, l.cur - 2)), e0)

\* Parser::parseString: the raw string becomes the String's text as it is.
parseString(s, cur, atEnd) ==
  LET r == parseRawString(s, cur, atEnd)
  IN IF r.err # "OK" THEN r ELSE Ok(r.cur, ValueTyped("String", r.val.str), r.atEnd)

\* std::string(cur_, cur_ + n <= end_ ? cur_ + n : end_)
Ahead(s, cur, n) == SubSeq(s, cur, IF cur + n <= Len(s) + 1 THEN cur + n - 1 ELSE Len(s))

\* Parser::parseBoolean
parseBoolean(s, cur, atEnd) ==
  IF Deref(s, cur) = "t" /\ Ahead(s, cur, 4) = <<"t", "r", "u", "e">>
  THEN Ok(cur + 4, ValueTyped("Boolean", Ahead(s, cur, 4)), atEnd)
  ELSE IF Deref(s, cur) = "f" /\ Ahead(s, cur, 5) = <<"f", "a", "l", "s", "e">>
  THEN Ok(cur + 5, ValueTyped("Boolean", Ahead(s, cur, 5)), atEnd)
  ELSE Throw(cur, "BAD_BOOLEAN", atEnd)

\* Parser::parseNull
parseNull(s, cur, atEnd) ==
  IF Ahead(s, cur, 4) = <<"n", "u", "l", "l">> THEN Ok(cur + 4, ValueDefault, atEnd)
  ELSE Throw(cur, "BAD_NULL", atEnd)

\* A variant of LeadingZero that looks for a digit from 1 to 9 after the zero.
LeadingZeroNonZeroNext(s, cur) ==
  /\ cur # Len(s) + 1
  /\ s[cur] = "0"
  /\ cur + 1 # Len(s) + 1
  /\ s[cur + 1] \in Digits \ {"0"}

\* parseNumber's test for a redundant leading zero
LeadingZero(s, cur) ==
  /\ cur # Len(s) + 1
  /\ s[cur] = "0"
  /\ cur + 1 # Len(s) + 1
  /\ isdigit(s[cur + 1])

\* The switch of parseNumber after the integer part: case '.' takes the
\* fraction and breaks; case 'e' / 'E' takes the exponent.
numberTail(s, cur, atEnd) ==
  LET e0 == atEnd \/ cur = Len(s) + 1
      c == Deref(s, cur)
  IN IF c = "." THEN [cur |-> skipDigit(s, cur + 1), err |-> "OK", atEnd |-> e0]
     ELSE IF c \in {"e", "E"}
     THEN IF cur + 1 = Len(s) + 1 THEN [cur |-> cur + 1, err |-> "BAD_NUMBER", atEnd |-> e0]
          ELSE LET c2 == IF s[cur + 1] \in {"+", "-"} THEN cur + 2 ELSE cur + 1
                   e2 == e0 \/ c2 = Len(s) + 1
               IN IF ~isdigit(Deref(s, c2))
                  THEN [cur |-> c2, err |-> "BAD_NUMBER", atEnd |-> e2]
                  ELSE [cur |-> skipDigit(s, c2), err |-> "OK", atEnd |-> e2]
     ELSE [cur |-> cur, err |-> "OK", atEnd |-> e0]

\* Parser::parseNumber
parseNumber(s, cur, atEnd) ==
  LET old_cur == cur
      c1 == IF Deref(s, cur) = "-" THEN cur + 1 ELSE cur
      e1 == atEnd \/ c1 = Len(s) + 1
  IN IF ~isdigit(Deref(s, c1)) THEN Throw(c1, "BAD_NUMBER", e1)
     ELSE IF LeadingZero(s, c1) THEN Throw(c1, "BAD_NUMBER", e1)
     ELSE LET t == numberTail(s, skipDigit(s, c1), e1)
          IN IF t.err # "OK" THEN Throw(t.cur, t.err, t.atEnd)
             ELSE Ok(t.cur, ValueTyped("Number", SubSeq(s, old_cur, t.cur - 1)), t.atEnd)

RECURSIVE parseValue(_, _, _), parseArray(_, _, _), arrayLoop(_, _, _, _),
          parseObject(_, _, _), objectLoop(_, _, _, _)

\* Parser::parseValue
parseValue(s, cur, atEnd) ==
  LET e0 == atEnd \/ cur = Len(s) + 1
      c == Deref(s, cur)
  IN CASE c \in {"t", "f"} -> parseBoolean(s, cur, e0)
       [] c = "n" -> parseNull(s, cur, e0)
       [] c = QUOTE -> parseString(s, cur, e0)
       [] c = "[" -> parseArray(s, cur, e0)
       [] c = "{" -> parseObject(s, cur, e0)
       [] c = "-" \/ isdigit(c) -> parseNumber(s, cur, e0)
       [] OTHER -> Throw(cur, "BAD_VALUE", e0)

\* Parser::parseArray, up to its loop
parseArray(s, cur, atEnd) ==
  LET c1 == skipWhiteSpace(s, cur + 1)
      e1 == atEnd \/ c1 = Len(s) + 1
  IN IF Deref(s, c1) = "]" THEN Ok(c1 + 1, ValueOfArray(<<>>), e1)
     ELSE arrayLoop(s, c1, e1, <<>>)

\* parseArray's loop after the white space that follows the value v, the
\* cursor at cur: emplace_back, then ',' or ']'
arraySeparator(s, cur, v, array_data) ==
  LET e2 == v.atEnd \/ cur = Len(s) + 1
      data == Append(array_data, v.val)
  IN CASE Deref(s, cur) = "," -> arrayLoop(s, cur + 1, e2, data)
       [] Deref(s, cur) = "]" -> Ok(cur + 1, ValueOfArray(data), e2)
       [] OTHER -> Throw(cur, "LACK_COMMA_OR_BRACKET", e2)

\* parseArray's loop after parseValue returned or threw v
arrayAfterValue(s, v, array_data) ==
  IF v.err # "OK" THEN v ELSE arraySeparator(s, skipWhiteSpace(s, v.cur), v, array_data)

\* one round of the while (true) loop of parseArray
arrayLoop(s, cur, atEnd, array_data) ==
  arrayAfterValue(s, parseValue(s, skipWhiteSpace(s, cur), atEnd), array_data)

\* Parser::parseObject, up to its loop
parseObject(s, cur, atEnd) ==
  LET c1 == skipWhiteSpace(s, cur + 1)
      e1 == atEnd \/ c1 = Len(s) + 1
  IN IF Deref(s, c1) = "}" THEN Ok(c1 + 1, ValueOfObject(<<>>), e1)
     ELSE objectLoop(s, c1, e1, <<>>)

\* parseObject's loop after the white space that follows the value v, the
\* cursor at cur: emplace under the unescaped key, then ',' or '}'
objectSeparator(s, cur, key, v, object_data) ==
  LET e3 == v.atEnd \/ cur = Len(s) + 1
      data == MapEmplace(object_data, unescapeJson(key), v.val)
  IN CASE Deref(s, cur) = "," -> objectLoop(s, cur + 1, e3, data)
       [] Deref(s, cur) = "}" -> Ok(cur + 1, ValueOfObject(data), e3)
       [] OTHER -> Throw(cur, "LACK_COMMA_OR_BRACE", e3)

\* parseObject's loop after parseValue returned or threw v
objectAfterValue(s, key, v, object_data) ==
  IF v.err # "OK" THEN v
  ELSE objectSeparator(s, skipWhiteSpace(s, v.cur), key, v, object_data)

\* parseObject's loop after the white space that follows the key, the cursor
\* at cur: the colon, white space, parseValue
objectColon(s, cur, atEnd, key, object_data) ==
  LET e2 == atEnd \/ cur = Len(s) + 1
  IN IF Deref(s, cur) # ":" THEN Throw(cur, "MISS_COLON", e2)
     ELSE objectAfterValue(s, key, parseValue(s, skipWhiteSpace(s, cur + 1), e2),
                           object_data)

\* parseObject's loop after parseRawString returned or threw k
objectAfterKey(s, k, object_data) ==
  IF k.err # "OK" THEN k
  ELSE objectColon(s, skipWhiteSpace(s, k.cur), k.atEnd, k.val.str, object_data)

\* one round of the while (true) loop of parseObject
objectLoop(s, cur, atEnd, object_data) ==
  objectAfterKey(s, parseRawString(s, skipWhiteSpace(s, cur), atEnd), object_data)

\* The last test of parseStart, *cur_ != '\0', negated: the root is accepted.
RootEnd(s, cur) == Deref(s, cur) = NUL

\* A variant of RootDispatch that lets every value start a document.
RootDispatchAnyValue(s, cur, atEnd) == parseValue(s, cur, atEnd)

\* The switch of parseStart on the first character after the white space.
RootDispatch(s, cur, atEnd) ==
  CASE Deref(s, cur) = "{" -> parseObject(s, cur, atEnd)
    [] Deref(s, cur) = "[" -> parseArray(s, cur, atEnd)
    [] OTHER -> Throw(cur, "NOT_JSON", atEnd)

\* parseStart after the root r returned or threw: white space, then the
\* test for the end
rootAfter(s, r) ==
  IF r.err # "OK" THEN r
  ELSE LET c1 == skipWhiteSpace(s, r.cur)
           e1 == r.atEnd \/ c1 = Len(s) + 1
       IN IF ~RootEnd(s, c1) THEN Throw(c1, "ROOT_NOT_ONE", e1)
          ELSE Ok(c1, r.val, e1)

\* Parser::parseStart
parseStart(s) ==
  rootAfter(s, RootDispatch(s, skipWhiteSpace(s, 1), skipWhiteSpace(s, 1) = Len(s) + 1))

\* Parser::parse
parse(json_data) == parseStart(json_data)

\* ------------------------------------------------------------------- state

VARIABLES
  codec_in,     \* the argument a caller hands to escapeJson
  codec_esc,    \* escapeJson(codec_in), once computed
  codec_unesc,  \* unescapeJson(codec_esc), once computed
  codec_pc,     \* "start", "escaped", "unescaped", "off"
  texts,        \* the JSON texts of a run, in order: handed to parse or made by to_string
  values,       \* the Values of a run, in order: built by the caller or returned by parse
  result,       \* what the last Parser::parse returned or threw
  pc,           \* "text": the last text awaits parse; "value": the last Value
                \* awaits to_string; "threw": parse threw; "off"
  slots,        \* the Value objects of a caller, by name; NoObject: not alive
  fault         \* "none", or how a member call on a Value ended the program

codecVars == <<codec_in, codec_esc, codec_unesc, codec_pc>>

pipeVars == <<texts, values, result, pc>>

objectVars == <<slots, fault>>

vars == <<codec_in, codec_esc, codec_unesc, codec_pc, texts, values, result, pc, slots, fault>>

\* no parse has run yet
NoResult == [cur |-> 0, err |-> "NONE", val |-> ValueDefault, atEnd |-> FALSE]

CodecOff ==
  /\ codec_in = <<>>
  /\ codec_esc = <<>>
  /\ codec_unesc = <<>>
  /\ codec_pc = "off"

PipeOff ==
  /\ texts = <<>>
  /\ values = <<>>
  /\ result = NoResult
  /\ pc = "off"

\* the names of a caller's Value objects
Slots == {"a", "b"}

\* storage that holds no Value: before its construction, after its destruction
NoObject == MkValue("Dead", "none", <<>>, FALSE, <<>>)

ObjectsOff ==
  /\ slots = [x \in Slots |-> NoObject]
  /\ fault = "off"

\* ------------------------------------------------- the escape codec, driven

\* the seven characters escapeJson names, and one ordinary letter
EscAlphabet == {NL, TAB, BSLASH, BS, CR, QUOTE, FF, "n"}

InitCodec ==
  /\ codec_in \in StringsUpTo(EscAlphabet, MaxEscLen)
  /\ codec_esc = <<>>
  /\ codec_unesc = <<>>
  /\ codec_pc = "start"
  /\ PipeOff
  /\ ObjectsOff

Escape ==
  /\ codec_pc = "start"
  /\ codec_esc' = escapeJson(codec_in)
  /\ codec_pc' = "escaped"
  /\ UNCHANGED <<codec_in, codec_unesc>>
  /\ UNCHANGED pipeVars
  /\ UNCHANGED objectVars

Unescape ==
  /\ codec_pc = "escaped"
  /\ codec_unesc' = unescapeJson(codec_esc)
  /\ codec_pc' = "unescaped"
  /\ UNCHANGED <<codec_in, codec_esc>>
  /\ UNCHANGED pipeVars
  /\ UNCHANGED objectVars

NextCodec == Escape \/ Unescape

SpecCodec == InitCodec /\ [][NextCodec]_vars

\* ------------------------------------------- parse and to_string, driven

\* Parser::parse returned the Value r.val, or threw r.err.
Returned(r) ==
  /\ result' = r
  /\ values' = IF r.err = "OK" THEN Append(values, r.val) ELSE values
  /\ pc' = IF r.err = "OK" THEN "value" ELSE "threw"

\* A caller hands the last text to Parser::parse.
Parse ==
  /\ pc = "text"
  /\ Len(values) < MaxRounds
  /\ Returned(parse(texts[Len(texts)]))
  /\ UNCHANGED texts
  /\ UNCHANGED codecVars
  /\ UNCHANGED objectVars

\* A caller calls to_string() on the last Value.
ToString ==
  /\ pc = "value"
  /\ Len(texts) < MaxRounds + 1
  /\ texts' = Append(texts, Value_to_string(values[Len(values)]))
  /\ pc' = "text"
  /\ UNCHANGED <<values, result>>
  /\ UNCHANGED codecVars
  /\ UNCHANGED objectVars

NextPipe == Parse \/ ToString

\* documents around the root: brackets, the four white-space characters, the
\* terminator character, a digit, a quote and a letter
RootAlphabet == {"{", "}", "[", "]", SP, NL, CR, TAB, NUL, "1", QUOTE, "t"}

InitRoot ==
  /\ texts \in {<<s>> : s \in StringsUpTo(RootAlphabet, MaxRootLen)}
  /\ values = <<>>
  /\ result = NoResult
  /\ pc = "text"
  /\ CodecOff
  /\ ObjectsOff

SpecRoot == InitRoot /\ [][NextPipe]_vars

\* one array whose text between the brackets is made of these
NumAlphabet == {"0", "1", "-", ".", "e", "+", ","}

InitNum ==
  /\ texts \in {<< <<"[">> \o b \o <<"]">> >> : b \in StringsUpTo(NumAlphabet, MaxNumLen)}
  /\ values = <<>>
  /\ result = NoResult
  /\ pc = "text"
  /\ CodecOff
  /\ ObjectsOff

SpecNum == InitNum /\ [][NextPipe]_vars

\* what comes before the opening quote of a string literal: a string as an
\* array element, as an object key and as an object member's value
StrPrefixes ==
  { <<"[">>, <<"[", SP>>, <<"[", "1", ",">>, <<"{">>, <<"{", QUOTE, "a", QUOTE, ":">> }

\* what follows the opening quote is made of these
StrAlphabet == {"a", "n", "x", BSLASH, QUOTE, "]", "}"}

InitStr ==
  /\ texts \in {<<p \o <<QUOTE>> \o b>> : p \in StrPrefixes,
                                         b \in StringsUpTo(StrAlphabet, MaxStrBody)}
  /\ values = <<>>
  /\ result = NoResult
  /\ pc = "text"
  /\ CodecOff
  /\ ObjectsOff

SpecStr == InitStr /\ [][NextPipe]_vars

\* the raw keys of the object family: between the quotes of the text
MemberKeys == { <<"a">>, <<"b">>, <<BSLASH, "n">>, <<NL>> }

\* the value texts of the object family
MemberValues == { <<"1">>, <<"2">> }

Members == [key : MemberKeys, value : MemberValues]

\* the text of one member: "key":value
MemberText(m) == <<QUOTE>> \o m.key \o <<QUOTE, ":">> \o m.value

\* the members' texts, a comma before each
RECURSIVE MembersText(_)
MembersText(ms) ==
  IF ms = <<>> THEN <<>> ELSE <<",">> \o MemberText(Head(ms)) \o MembersText(Tail(ms))

\* the text of an object with the members ms, in their order
ObjectText(ms) == <<"{">> \o Tail(MembersText(ms)) \o <<"}">>

InitObj ==
  /\ texts \in {<<ObjectText(ms)>> : ms \in SeqsUpTo(Members, MaxMembers) \ {<<>>}}
  /\ values = <<>>
  /\ result = NoResult
  /\ pc = "text"
  /\ CodecOff
  /\ ObjectsOff

SpecObj == InitObj /\ [][NextPipe]_vars

\* ordinary characters around a \u escape: at most this many on each side
MaxUniPad == 1

\* the hex digits of the \u escapes
UniHex == {"0", "a"}

\* the six characters of a \u escape
UniEscapes == {<<BSLASH, "u", h1, h2, h3, h4>> : h1 \in UniHex, h2 \in UniHex,
                                                 h3 \in UniHex, h4 \in UniHex}

\* raw texts between quotes that hold one \u escape
UniBodies ==
  {p \o e \o q : p \in StringsUpTo({"x"}, MaxUniPad), e \in UniEscapes,
                 q \in StringsUpTo({"x"}, MaxUniPad)}

\* documents with a \u escape in an object key, in a member's string value
\* or in an array's string element
UniTexts ==
  {<<"{", QUOTE>> \o k \o <<QUOTE, ":", QUOTE>> \o v \o <<QUOTE, "}">> :
     k \in UniBodies \cup {<<"k">>}, v \in UniBodies \cup {<<"v">>}}
    \cup {<<"[", QUOTE>> \o v \o <<QUOTE, "]">> : v \in UniBodies}

InitUni ==
  /\ texts \in {<<s>> : s \in UniTexts}
  /\ values = <<>>
  /\ result = NoResult
  /\ pc = "text"
  /\ CodecOff
  /\ ObjectsOff

SpecUni == InitUni /\ [][NextPipe]_vars

\* the texts of the Strings and keys a caller builds: ordinary characters and
\* the characters escapeJson names
BuiltTexts ==
  { <<"a">>, <<BSLASH, "n">>, <<NL>>, <<QUOTE>>, <<BSLASH>>, <<FF>>, <<"a", QUOTE, "b">> }

\* Value(), Value(bool), Value(size_t) (std::to_string of 1 and of 0),
\* Value(const char*)
BuiltScalars ==
  {ValueDefault, ValueOfBool(TRUE), ValueOfBool(FALSE),
   ValueOfSize(<<"1">>), ValueOfSize(<<"0">>)}
    \cup {ValueOfString(x) : x \in BuiltTexts}

\* std::map(std::initializer_list): the pairs inserted in their order
RECURSIVE MapOfList(_, _)
MapOfList(init_list, object_data) ==
  IF init_list = <<>> THEN object_data
  ELSE MapOfList(Tail(init_list),
                 MapEmplace(object_data, Head(init_list).key, Head(init_list).value))

\* Value(Array(init_list)) over the elements E
BuiltArrays(E) == {ValueOfArray(items) : items \in SeqsUpTo(E, MaxItems)}

\* Value(Object(init_list)) over the keys K and the elements E
BuiltObjects(K, E) ==
  {ValueOfObject(MapOfList(l, <<>>)) : l \in SeqsUpTo([key : K, value : E], MaxItems)}

\* the containers a caller nests in the root
BuiltInner ==
  BuiltArrays({ValueOfString(<<"a">>)}) \cup BuiltObjects({<<"a">>}, {ValueDefault})

\* the roots a caller builds
BuiltRoots ==
  BuiltArrays(BuiltScalars \cup BuiltInner)
    \cup BuiltObjects({<<"a">>, <<QUOTE>>, <<FF>>}, {ValueOfString(<<"a">>)} \cup BuiltInner)

InitBuild ==
  /\ texts = <<>>
  /\ values \in {<<v>> : v \in BuiltRoots}
  /\ result = NoResult
  /\ pc = "value"
  /\ CodecOff
  /\ ObjectsOff

SpecBuild == InitBuild /\ [][NextPipe]_vars

\* ---------------------------------------------- Value objects, driven

\* deepest nesting of the containers a caller builds from its Values
MaxDepth == 1

ValueTypes == {"Array", "Object", "Null", "Boolean", "String", "Number"}

\* the Values directly under a container Value
Children(v) ==
  IF v.alt = "object_ptr" THEN [i \in 1..Len(v.elems) |-> v.elems[i].value] ELSE v.elems

\* the nesting depth of a Value: 0 for a string alternative
RECURSIVE Depth(_)
Depth(v) ==
  IF v.alt = "string" THEN 0
  ELSE IF v.elems = <<>> THEN 1
  ELSE LET d == {Depth(Children(v)[i]) : i \in 1..Len(v.elems)}
       IN 1 + CHOOSE m \in d : \A n \in d : n <= m

\* Value::deepCopy(rhs) dereferences an empty unique_ptr: **pval with *pval
\* null, in rhs or, through the copy of the container, in a Value under it.
RECURSIVE CopyDerefsNull(_)
CopyDerefsNull(rhs) ==
  /\ rhs.alt # "string"
  /\ \/ rhs.null
     \/ \E i \in 1..Len(rhs.elems) : CopyDerefsNull(Children(rhs)[i])

\* The state of rhs after Value(Value &&rhs) or operator=(Value &&rhs), both
\* defaulted: type_ is kept; the variant keeps its alternative, a unique_ptr
\* left empty, a std::string left valid but unspecified (text is what it holds).
MovedFrom(rhs, text) ==
  IF rhs.alt = "string" THEN MkValue(rhs.type, "string", text, FALSE, <<>>)
  ELSE MkValue(rhs.type, rhs.alt, <<>>, TRUE, <<>>)

\* How Value::to_string() on v ends: "none" (it returns),
\* "bad_variant_access" (std::get of an alternative that is not the active
\* one) or "null_deref" (-> on an empty unique_ptr).
RECURSIVE ToStringFault(_), FirstFault(_)
ToStringFault(v) ==
  CASE v.type = "Null" -> "none"
    [] v.type \in {"Boolean", "Number", "String"} ->
         IF v.alt = "string" THEN "none" ELSE "bad_variant_access"
    [] v.type = "Object" ->
         IF v.alt # "object_ptr" THEN "bad_variant_access"
         ELSE IF v.null THEN "null_deref"
         ELSE FirstFault(Children(v))
    [] v.type = "Array" ->
         IF v.alt # "array_ptr" THEN "bad_variant_access"
         ELSE IF v.null THEN "null_deref"
         ELSE FirstFault(v.elems)

\* the for loops of Array::to_string and Object::to_string: the first element
\* whose to_string() does not return ends the call
FirstFault(elems) ==
  IF elems = <<>> THEN "none"
  ELSE IF ToStringFault(Head(elems)) # "none" THEN ToStringFault(Head(elems))
  ELSE FirstFault(Tail(elems))

Alive(x) == slots[x] # NoObject

Running == fault = "none"

\* the texts a caller gives its scalars
ObjectTexts == {<<>>, <<"x">>}

\* Value x; Value x(true); Value x("x"); Value x(size_t(1));
ConstructScalar ==
  /\ Running
  /\ \E x \in Slots :
       /\ ~Alive(x)
       /\ \E v \in {ValueDefault, ValueOfBool(TRUE), ValueOfSize(<<"1">>)}
                     \cup {ValueOfString(s) : s \in ObjectTexts} :
            slots' = [slots EXCEPT ![x] = v]
  /\ UNCHANGED fault
  /\ UNCHANGED codecVars
  /\ UNCHANGED pipeVars

\* Value x(Array{...}); Value x(Object{...}); the elements are copies of the
\* caller's Values (std::initializer_list copies), under the key "x" in an Object
ConstructContainer ==
  /\ Running
  /\ \E x \in Slots :
       /\ ~Alive(x)
       /\ \E ys \in SeqsUpTo({y \in Slots : Alive(y) /\ Depth(slots[y]) < MaxDepth}, MaxItems) :
            IF \E i \in 1..Len(ys) : CopyDerefsNull(slots[ys[i]])
            THEN fault' = "null_deref" /\ UNCHANGED slots
            ELSE /\ UNCHANGED fault
                 /\ \E v \in {ValueOfArray([i \in 1..Len(ys) |-> slots[ys[i]]]),
                              ValueOfObject(MapOfList(
                                [i \in 1..Len(ys) |-> [key |-> <<"x">>, value |-> slots[ys[i]]]],
                                <<>>))} :
                      slots' = [slots EXCEPT ![x] = v]
  /\ UNCHANGED codecVars
  /\ UNCHANGED pipeVars

\* Value x(type, args...): the tag is type, value_data_ is built from args: no
\* argument (an empty string), a std::string, std::make_unique<Array>() or
\* std::make_unique<Object>(), or an empty array_ptr or object_ptr
ConstructTyped ==
  /\ Running
  /\ \E x \in Slots, type \in ValueTypes :
       /\ ~Alive(x)
       /\ \E v \in {MkValue(type, "string", s, FALSE, <<>>) : s \in ObjectTexts}
                     \cup {MkValue(type, alt, <<>>, null, <<>>) :
                             alt \in {"array_ptr", "object_ptr"}, null \in BOOLEAN} :
            slots' = [slots EXCEPT ![x] = v]
  /\ UNCHANGED fault
  /\ UNCHANGED codecVars
  /\ UNCHANGED pipeVars

\* Value x(y);  Value(const Value &rhs) : type_(rhs.type_) { deepCopy(rhs.value_data_); }
CopyConstruct ==
  /\ Running
  /\ \E x \in Slots, y \in Slots :
       /\ ~Alive(x)
       /\ Alive(y)
       /\ IF CopyDerefsNull(slots[y])
          THEN fault' = "null_deref" /\ UNCHANGED slots
          ELSE slots' = [slots EXCEPT ![x] = slots[y]] /\ UNCHANGED fault
  /\ UNCHANGED codecVars
  /\ UNCHANGED pipeVars

\* x = y;  Value::operator=(const Value &rhs): type_ = rhs.type_; deepCopy(rhs.value_data_)
CopyAssign ==
  /\ Running
  /\ \E x \in Slots, y \in Slots :
       /\ Alive(x)
       /\ Alive(y)
       /\ IF CopyDerefsNull(slots[y])
          THEN /\ fault' = "null_deref"
               /\ slots' = [slots EXCEPT ![x] = [@ EXCEPT !.type = slots[y].type]]
          ELSE slots' = [slots EXCEPT ![x] = slots[y]] /\ UNCHANGED fault
  /\ UNCHANGED codecVars
  /\ UNCHANGED pipeVars

\* Value x(std::move(y));  Value(Value &&rhs) noexcept = default
MoveConstruct ==
  /\ Running
  /\ \E x \in Slots, y \in Slots :
       /\ x # y
       /\ ~Alive(x)
       /\ Alive(y)
       /\ \E text \in {<<>>, slots[y].str} :
            slots' = [slots EXCEPT ![x] = slots[y], ![y] = MovedFrom(slots[y], text)]
  /\ UNCHANGED fault
  /\ UNCHANGED codecVars
  /\ UNCHANGED pipeVars

\* x = std::move(y);  Value &operator=(Value &&rhs) = default
MoveAssign ==
  /\ Running
  /\ \E x \in Slots, y \in Slots :
       /\ x # y
       /\ Alive(x)
       /\ Alive(y)
       /\ \E text \in {<<>>, slots[y].str} :
            slots' = [slots EXCEPT ![x] = slots[y], ![y] = MovedFrom(slots[y], text)]
  /\ UNCHANGED fault
  /\ UNCHANGED codecVars
  /\ UNCHANGED pipeVars

\* x.to_string(): returns, throws std::bad_variant_access, or reads through a
\* null pointer
CallToString ==
  /\ Running
  /\ \E x \in Slots :
       /\ Alive(x)
       /\ fault' = ToStringFault(slots[x])
  /\ UNCHANGED slots
  /\ UNCHANGED codecVars
  /\ UNCHANGED pipeVars

\* x goes out of scope: ~Value() = default
Destroy ==
  /\ Running
  /\ \E x \in Slots :
       /\ Alive(x)
       /\ slots' = [slots EXCEPT ![x] = NoObject]
  /\ UNCHANGED fault
  /\ UNCHANGED codecVars
  /\ UNCHANGED pipeVars

InitObjects ==
  /\ slots = [x \in Slots |-> NoObject]
  /\ fault = "none"
  /\ CodecOff
  /\ PipeOff

NextObjects ==
  \/ ConstructScalar
  \/ ConstructContainer
  \/ ConstructTyped
  \/ CopyConstruct
  \/ CopyAssign
  \/ MoveConstruct
  \/ MoveAssign
  \/ CallToString
  \/ Destroy

SpecObjects == InitObjects /\ [][NextObjects]_vars

\* ------------------------------------------------------------------ claims

\* The text the last parse was handed, when pc is "value" or "threw".
ParsedText == texts[Len(texts)]

\* a parse has just returned or thrown
AfterParse == pc \in {"value", "threw"}

EmptyObjectText == <<"{", "}">>

EmptyArrayText == <<"[", "]">>

\* C1: serializing an empty container yields its two bracket characters: an
\* empty Object renders "{}" and an empty Array "[]", at the root (as in
\* parse("{}").to_string()) and nested inside another container.
C1_EmptyContainers ==
  \A k \in 1..Len(values) :
    k + 1 <= Len(texts) =>
      /\ values[k] = ValueOfObject(<<>>) => texts[k + 1] = EmptyObjectText
      /\ values[k] = ValueOfArray(<<>>) => texts[k + 1] = EmptyArrayText
      /\ values[k] = ValueOfArray(<<ValueOfArray(<<>>)>>)
           => texts[k + 1] = <<"[">> \o EmptyArrayText \o <<"]">>
      /\ values[k] = ValueOfArray(<<ValueOfObject(<<>>)>>)
           => texts[k + 1] = <<"[">> \o EmptyObjectText \o <<"]">>

\* the last member of ms whose key unescapes to key
LastMember(ms, key) ==
  ms[CHOOSE i \in 1..Len(ms) :
       /\ unescapeJson(ms[i].key) = key
       /\ \A j \in (i + 1)..Len(ms) : unescapeJson(ms[j].key) # key]

\* C2: when the same key (after unescaping) occurs more than once in an object
\* text, the parsed Object holds exactly one entry for it, and its value is
\* the value of the last occurrence.
C2_LastWriteWins ==
  Len(values) >= 1 =>
    \A ms \in SeqsUpTo(Members, MaxMembers) \ {<<>>} :
      texts[1] = ObjectText(ms) =>
        \A i \in 1..Len(ms) :
          LET key == unescapeJson(ms[i].key)
              object_data == values[1].elems
          IN /\ Cardinality({n \in 1..Len(object_data) : object_data[n].key = key}) = 1
             /\ MapAt(object_data, key) = ValueTyped("Number", LastMember(ms, key).value)

\* C3: for every text s that parses, t = parse(s).to_string() parses too and
\* parse(t).to_string() = t.
C3_Idempotent ==
  /\ ~(Len(texts) = 2 /\ pc = "threw")
  /\ Len(texts) >= 3 => texts[3] = texts[2]

\* no Array and no Object of the tree is empty
RECURSIVE NoEmptyContainer(_)
NoEmptyContainer(v) ==
  v.alt = "string" \/
    /\ v.elems # <<>>
    /\ \A i \in 1..Len(v.elems) : NoEmptyContainer(Children(v)[i])

\* C4: round trip of a tree v built through the constructors, rooted at an
\* Array or Object: parse(v.to_string()) succeeds and yields a Value equal to
\* v.  Stated for the trees all of whose containers hold something.
C4_RoundTrip ==
  NoEmptyContainer(values[1]) =>
    /\ pc # "threw"
    /\ Len(values) >= 2 => values[2] = values[1]

\* C5: escape inverse law.  For every string s of ordinary characters and the
\* seven control characters, unescapeJson(escapeJson(s)) = s.
C5_EscapeInverse == codec_pc = "unescaped" => codec_unesc = codec_in

\* C5 witness: a backslash directly followed by the letter n, a quote and a
\* form feed went through escapeJson and unescapeJson and came back unchanged.
C5_Witness ==
  /\ codec_pc = "unescaped"
  /\ codec_in = <<BSLASH, "n", QUOTE, FF>>
  /\ codec_esc = <<BSLASH, BSLASH, "n", BSLASH, QUOTE, FF>>
  /\ codec_unesc = codec_in

\* the first character of s from position i on that is not white space, or
\* "END" when there is none
RECURSIVE FirstNonWhite(_, _)
FirstNonWhite(s, i) ==
  IF i > Len(s) THEN "END"
  ELSE IF s[i] \in {SP, NL, CR, TAB} THEN FirstNonWhite(s, i + 1)
  ELSE s[i]

\* C6: root restriction.  When the first character that is not white space is
\* neither '{' nor '[' (also when there is no such character), parse fails
\* with NOT_JSON and returns no Value.
C6_RootRestriction ==
  (AfterParse /\ FirstNonWhite(ParsedText, 1) \notin {"{", "["}) =>
    /\ pc = "threw"
    /\ result.err = "NOT_JSON"
    /\ Len(values) = Len(texts) - 1

\* C6 witness: a bare number after white space was rejected with NOT_JSON.
C6_Witness ==
  /\ texts = << <<SP, "1">> >>
  /\ pc = "threw"
  /\ result.err = "NOT_JSON"
  /\ values = <<>>

\* the position from i on of the first character of s that is not white
\* space, or Len(s) + 1 when there is none
RECURSIVE FirstNonWhitePos(_, _)
FirstNonWhitePos(s, i) ==
  IF i > Len(s) THEN Len(s) + 1
  ELSE IF s[i] \in {SP, NL, CR, TAB} THEN FirstNonWhitePos(s, i + 1)
  ELSE i

\* C7: trailing content.  parse succeeds only with the cursor exactly at
\* end-of-input: whenever a character other than space, \n, \r, \t remains
\* after the root (here an empty Object or Array), parse fails with
\* ROOT_NOT_ONE.
C7_TrailingContent ==
  /\ pc = "value" => result.cur = Len(ParsedText) + 1
  /\ AfterParse =>
       LET s == ParsedText
           k == FirstNonWhitePos(s, 1)
       IN (/\ k + 1 <= Len(s)
           /\ <<s[k], s[k + 1]>> \in {EmptyObjectText, EmptyArrayText}
           /\ FirstNonWhitePos(s, k + 2) <= Len(s))
            => (pc = "threw" /\ result.err = "ROOT_NOT_ONE")

\* a number literal starts at position p of the array text s: p follows the
\* opening bracket, or a comma after a one-digit element
RECURSIVE NumberStart(_, _)
NumberStart(s, p) ==
  \/ p = 2
  \/ /\ p >= 4
     /\ s[p - 1] = ","
     /\ s[p - 2] \in Digits
     /\ NumberStart(s, p - 2)

\* at position p of s: an optional '-', then '0', then another digit
ZeroThenDigit(s, p) ==
  LET q == IF s[p] = "-" THEN p + 1 ELSE p
  IN q + 1 <= Len(s) /\ s[q] = "0" /\ s[q + 1] \in Digits

\* b is 0, or 0 and a fraction: "0", "0.d", "0.dd", ...
ZeroOrZeroFraction(b) ==
  \/ b = <<"0">>
  \/ /\ Len(b) >= 3
     /\ b[1] = "0"
     /\ b[2] = "."
     /\ \A i \in 3..Len(b) : b[i] \in Digits

\* C8: leading-zero rejection.  A number literal, with or without '-', whose
\* first digit is 0 directly followed by a digit makes parse fail with
\* BAD_NUMBER; [0] and [0.d...] parse, the literal kept as the Number's text.
C8_LeadingZero ==
  AfterParse =>
    LET s == ParsedText
        b == SubSeq(s, 2, Len(s) - 1)
    IN /\ (\E p \in 2..Len(s) : NumberStart(s, p) /\ ZeroThenDigit(s, p))
            => (pc = "threw" /\ result.err = "BAD_NUMBER")
       /\ ZeroOrZeroFraction(b)
            => (pc = "value" /\ result.val = ValueOfArray(<<ValueTyped("Number", b)>>))

\* C8 witness: [-01] was rejected with BAD_NUMBER.
C8_Witness ==
  /\ texts = << <<"[", "-", "0", "1", "]">> >>
  /\ pc = "threw"
  /\ result.err = "BAD_NUMBER"

\* The string literal whose first character is at position i of s (after the
\* opening quote): "terminated" by an unescaped quote; "unterminated" when s
\* ends first, every backslash followed by one of " \ / t r n u b f;
\* "ends_in_backslash" when s ends right after a backslash; "bad_escape" when
\* a backslash is followed by another character.
RECURSIVE LiteralShape(_, _)
LiteralShape(s, i) ==
  IF i > Len(s) THEN "unterminated"
  ELSE IF s[i] = QUOTE THEN "terminated"
  ELSE IF s[i] # BSLASH THEN LiteralShape(s, i + 1)
  ELSE IF i = Len(s) THEN "ends_in_backslash"
  ELSE IF s[i + 1] \in {QUOTE, BSLASH, "/", "t", "r", "n", "u", "b", "f"}
       THEN LiteralShape(s, i + 2)
  ELSE "bad_escape"

\* the shapes of the string literals of s that open right after a prefix of
\* StrPrefixes
OpenedLiterals(s) ==
  {LiteralShape(s, Len(p) + 2) :
     p \in {q \in StrPrefixes : Len(q) < Len(s) /\ SubSeq(s, 1, Len(q) + 1) = q \o <<QUOTE>>}}

\* C9 as stated: whenever end-of-input is reached before the closing quote of
\* an opened string literal, also right after a backslash, parse fails with
\* JSON_LENGTH.
C9_Original ==
  (AfterParse /\ OpenedLiterals(ParsedText) \cap {"unterminated", "ends_in_backslash"} # {})
    => (pc = "threw" /\ result.err = "JSON_LENGTH")

\* C9 amended: when end-of-input is reached before the closing quote and every
\* backslash of the literal is followed by an accepted character, parse fails
\* with JSON_LENGTH; when the input ends right after a backslash, parse fails
\* with BAD_ESCAPE.
C9_Unterminated ==
  AfterParse =>
    /\ "unterminated" \in OpenedLiterals(ParsedText)
         => (pc = "threw" /\ result.err = "JSON_LENGTH")
    /\ "ends_in_backslash" \in OpenedLiterals(ParsedText)
         => (pc = "threw" /\ result.err = "BAD_ESCAPE")

\* C9 witness: the member value "a\" of {"a":"a\" never closes (its quote is
\* escaped) and parse failed with JSON_LENGTH.
C9_Witness ==
  /\ texts = << <<"{", QUOTE, "a", QUOTE, ":", QUOTE, "a", BSLASH, QUOTE>> >>
  /\ pc = "threw"
  /\ result.err = "JSON_LENGTH"

\* the payload of v matches its tag: an owned Array under Array, an owned
\* Object under Object, a text under Null, Boolean, Number and String
TagMatchesPayload(v) ==
  CASE v.type = "Array" -> v.alt = "array_ptr" /\ ~v.null
    [] v.type = "Object" -> v.alt = "object_ptr" /\ ~v.null
    [] OTHER -> v.alt = "string"

\* C10: tag/payload invariant.  After any constructions, copies and moves,
\* every Value that exists, the source of a move included, has a payload
\* matching its tag, so that to_string() on it is well defined.
C10_TagPayload ==
  /\ \A x \in Slots : Alive(x) => TagMatchesPayload(slots[x])
  /\ fault \in {"none", "off"}

\* the root a caller built is an array holding one String
OneStringRoot ==
  /\ values # <<>>
  /\ values[1].type = "Array"
  /\ Len(values[1].elems) = 1
  /\ values[1].elems[1].type = "String"

\* C11: string rendering.  to_string() of a String with the stored text x is
\* a quote, escapeJson(x), a quote: an array holding that one String renders
\* as [ "escapeJson(x)" ].
C11_StringRendering ==
  (OneStringRoot /\ texts # <<>>) =>
    texts[1] = <<"[", QUOTE>> \o escapeJson(values[1].elems[1].str) \o <<QUOTE, "]">>

\* the position after the run of digits that starts at position i of b
RECURSIVE DigitRunEnd(_, _)
DigitRunEnd(b, i) ==
  IF i <= Len(b) /\ b[i] \in Digits THEN DigitRunEnd(b, i + 1) ELSE i

\* the position after the integer part of b, an optional '-' and then 0 or a
\* run of digits not starting with 0; 0 when b does not start with one
IntegerEnd(b) ==
  LET i == IF b # <<>> /\ b[1] = "-" THEN 2 ELSE 1
      j == DigitRunEnd(b, i)
  IN IF j = i \/ (b[i] = "0" /\ j > i + 1) THEN 0 ELSE j

\* the position after the optional fraction at position i of b, '.' and at
\* least one digit; 0 when a '.' is followed by no digit
FractionEnd(b, i) ==
  IF i <= Len(b) /\ b[i] = "."
  THEN IF DigitRunEnd(b, i + 1) = i + 1 THEN 0 ELSE DigitRunEnd(b, i + 1)
  ELSE i

\* the position after the optional exponent at position i of b, 'e' or 'E',
\* an optional sign and at least one digit; 0 when the digit is missing
ExponentEnd(b, i) ==
  IF i <= Len(b) /\ b[i] \in {"e", "E"}
  THEN LET k == IF i + 1 <= Len(b) /\ b[i + 1] \in {"+", "-"} THEN i + 2 ELSE i + 1
       IN IF DigitRunEnd(b, k) = k THEN 0 ELSE DigitRunEnd(b, k)
  ELSE i

\* b is one number literal: integer part, optional fraction, optional
\* exponent, in that order, and nothing else
IsNumberLiteral(b) ==
  /\ IntegerEnd(b) # 0
  /\ FractionEnd(b, IntegerEnd(b)) # 0
  /\ ExponentEnd(b, FractionEnd(b, IntegerEnd(b))) = Len(b) + 1

\* C12: number grammar.  An array holding one number literal b (optional '-',
\* integer part, optional fraction and optional exponent, in that order)
\* parses to one Number whose text is b, and renders back as the same text.
C12_NumberGrammar ==
  IsNumberLiteral(SubSeq(texts[1], 2, Len(texts[1]) - 1)) =>
    /\ (AfterParse /\ Len(texts) = 1) =>
         /\ pc = "value"
         /\ result.val =
              ValueOfArray(<<ValueTyped("Number", SubSeq(texts[1], 2, Len(texts[1]) - 1))>>)
    /\ Len(texts) >= 2 => texts[2] = texts[1]

\* C13: \u pass-through.  A document with a \u escape and four hex digits in
\* an object key or in a string value parses, and serializing the result
\* reproduces the document, the six characters of the escape unchanged.
C13_UnicodePassThrough ==
  /\ AfterParse => pc = "value"
  /\ Len(texts) >= 2 => texts[2] = texts[1]

\* what the character c is to become: its two-character escape sequence for
\* the seven control characters, c itself otherwise
EscapeSequenceOf(c) ==
  CASE c = NL -> <<BSLASH, "n">>
    [] c = TAB -> <<BSLASH, "t">>
    [] c = BSLASH -> <<BSLASH, BSLASH>>
    [] c = BS -> <<BSLASH, "b">>
    [] c = CR -> <<BSLASH, "r">>
    [] c = QUOTE -> <<BSLASH, QUOTE>>
    [] c = FF -> <<BSLASH, "f">>
    [] OTHER -> <<c>>

\* s with every character replaced by what it is to become
RECURSIVE EachEscaped(_)
EachEscaped(s) ==
  IF s = <<>> THEN <<>> ELSE EscapeSequenceOf(Head(s)) \o EachEscaped(Tail(s))

\* C14: escapeJson replaces every occurrence of each of the seven control
\* characters by its two-character escape sequence and leaves every other
\* character unchanged.
C14_EscapeAll ==
  codec_pc \in {"escaped", "unescaped"} => codec_esc = EachEscaped(codec_in)

\* C15: parser cursor safety.  When parse returns or throws, on any input,
\* the cursor is inside the input or at its end boundary, and no character
\* was read with the cursor at the end boundary.
C15_CursorSafety ==
  AfterParse =>
    /\ result.cur >= 1
    /\ result.cur <= Len(ParsedText) + 1
    /\ ~result.atEnd

====
